---- MODULE Spec2Model ----
(***************************************************************************)
(* Model of the GetNovel downloader (Clickman777/TgBot).                   *)
(*                                                                         *)
(* The model follows one novel directory GetNovel/Novels/<title>, the      *)
(* central ledger GetNovel/Novels/novel_list.json and the operations of    *)
(* NovelManager (src/GetNovel/manager.py), Scraper (src/GetNovel/          *)
(* scraper.py), EpubGenerator (src/GetNovel/epub.py) and NovelListManager  *)
(* (src/GetNovel/novel_list_manager.py).                                   *)
(*                                                                         *)
(* Python strings are sequences of tokens: a tag ("<p>", "</p>", "<h1>",   *)
(* "</h1>") or one character.  File and network errors the code catches    *)
(* (IOError, RequestException, JSONDecodeError) are choices of the         *)
(* environment made at the operation that can raise them.                  *)
(***************************************************************************)
EXTENDS Integers, Sequences, FiniteSets, TLC

\* ------------------------------------------------------------------ bounds
\* Chapter numbers of the novel are 1..MaxChapter.
MaxChapter == 2

\* The worker pool is looked at on novels of up to MaxPoolChapter chapters,
\* one more than the pool has workers.
MaxPoolChapter == 11

\* Titles of chapters have at most MaxTitleLen characters, bodies at most
\* MaxParas paragraphs.
MaxTitleLen == 2
MaxParas == 2

\* ------------------------------------------------------- program constants
\* ThreadPoolExecutor(max_workers=10)
max_workers == 10
\* end_chapter: Optional[int] = None; None is written -1 here.
NoneEnd == -1
\* total_chapters: Optional[int] = None; None is written 0 here (the code
\* only tests it with `or`, which treats None and 0 alike).
NoneTotal == 0

Chapters == 1..MaxChapter
PoolChapters == 1..MaxPoolChapter
\* the operations (threads running process_novel) the model can hold
OpIds == {1, 2}
\* the title of the novel whose directory is followed, and another title
\* that the ledger may hold
NovelTitle == "A"
Titles == {"A", "B"}

\* ------------------------------------------------------------ Python text
Tags == {"<p>", "</p>", "<h1>", "</h1>"}
IsTag(t) == t \in Tags

\* len() of one token in characters
TokLen(t) ==
  CASE t = "<p>" -> 3
    [] t = "</p>" -> 4
    [] t = "<h1>" -> 4
    [] t = "</h1>" -> 5
    [] OTHER -> 1

RECURSIVE PyLen(_)
\* len(s) of a Python str
PyLen(s) == IF s = <<>> THEN 0 ELSE TokLen(Head(s)) + PyLen(Tail(s))

\* the value None where a str is expected
NoneStr == <<"None">>
\* no file at a path (os.path.exists is False)
NoFile == <<"absent">>

\* truth value of `if chapter_data:` for Optional[str]
Truthy(s) == s # NoneStr /\ s # <<>>

RECURSIVE JoinParagraphs(_)
\* "".join([str(p) for p in content_div.find_all('p')])
JoinParagraphs(ps) ==
  IF ps = <<>> THEN <<>>
  ELSE <<"<p>">> \o Head(ps) \o <<"</p>">> \o JoinParagraphs(Tail(ps))

\* the answers of the site to a chapter request
ChapterPages ==
  { [http |-> "error", hasDiv |-> FALSE, paras |-> <<>>],
    [http |-> "ok", hasDiv |-> FALSE, paras |-> <<>>],
    [http |-> "ok", hasDiv |-> TRUE, paras |-> <<>>],
    [http |-> "ok", hasDiv |-> TRUE, paras |-> << <<"x">> >>],
    [http |-> "ok", hasDiv |-> TRUE, paras |-> << <<"x">>, <<"y">> >>] }

\* Scraper.get_chapter_content: Optional[str]
get_chapter_content(page) ==
  IF page.http = "error" THEN NoneStr
  ELSE IF page.hasDiv THEN JoinParagraphs(page.paras)
  ELSE NoneStr

\* `title, content = chapter_data` succeeds only on an iterable of exactly
\* two items; a str iterates over its characters.
CanUnpack2(s) == PyLen(s) = 2

\* content_to_save = f"<h1>{title}</h1>\n{content}"
ContentToSave(title, content) ==
  <<"<h1>">> \o title \o <<"</h1>", "\n">> \o content

\* index of the first token tok in s at or after position from, 0 if none
FirstIndexFrom(s, tok, from) ==
  IF \E i \in from..Len(s) : s[i] = tok
  THEN CHOOSE i \in from..Len(s) :
         s[i] = tok /\ \A j \in from..(i - 1) : s[j] # tok
  ELSE 0

\* soup.find('h1'): position of the first <h1>, 0 when there is none
FindH1(s) == FirstIndexFrom(s, "<h1>", 1)

\* position of the end tag of the first h1; html.parser closes an open
\* element at the end of the document
H1End(s) ==
  LET c == FirstIndexFrom(s, "</h1>", FindH1(s) + 1)
  IN IF c = 0 THEN Len(s) + 1 ELSE c

\* title_tag.text: the text inside the element, tags dropped
H1Text(s) ==
  SelectSeq(SubSeq(s, FindH1(s) + 1, H1End(s) - 1), LAMBDA t : ~IsTag(t))

\* f"Chapter {i}"
DefaultTitle(i) == <<"Chapter", " ", ToString(i)>>

\* title_tag.decompose(); str(soup)
WithoutH1(s) ==
  SubSeq(s, 1, FindH1(s) - 1) \o SubSeq(s, H1End(s) + 1, Len(s))

\* process_novel / load_existing_chapters: Chapter read from a chapter file
LoadedChapter(i, content) ==
  IF FindH1(content) # 0
  THEN [number |-> i, title |-> H1Text(content), content |-> WithoutH1(content)]
  ELSE [number |-> i, title |-> DefaultTitle(i), content |-> content]

\* download_chapter: Chapter read from an existing chapter file
LocalChapter(i, content) ==
  [number |-> i,
   title |-> IF FindH1(content) # 0 THEN H1Text(content) ELSE DefaultTitle(i),
   content |-> content]


\* ---------------------------------------------------------------- ledger
\* a title without an entry in novel_list.json
NoEntry == <<0>>
\* json {}: no title has an entry
EmptyData == [t \in Titles |-> NoEntry]
\* novels_data.get(title, {}).get('chapters', [])
RecordedChapters(data, t) == IF data[t] = NoEntry THEN <<>> ELSE data[t]

SeqToSet(s) == {s[i] : i \in 1..Len(s)}

RECURSIVE SortedSeq(_)
\* sorted(list(S)) of a set of integers
SortedSeq(S) ==
  IF S = {} THEN <<>>
  ELSE LET m == CHOOSE x \in S : \A y \in S : x <= y
       IN <<m>> \o SortedSeq(S \ {m})

\* a faulty all_chapters: the numbers of this run are not merged in
ExistingOnly(existing_chapters, newly_downloaded_chapters) == existing_chapters

\* all_chapters = sorted(list(set(existing_chapters + newly_downloaded_chapters)))
AllChapters(existing_chapters, newly_downloaded_chapters) ==
  SortedSeq(SeqToSet(existing_chapters \o newly_downloaded_chapters))

\* [ch.number for ch in novel.chapters]
Numbers(chapters) == [i \in 1..Len(chapters) |-> chapters[i].number]

\* _load_novels_data / the read at the head of update_novel_list_json:
\* {} when the file is missing or cannot be read or parsed
LoadNovelsData(file, readOk) ==
  IF file.exists /\ readOk THEN file.entries ELSE EmptyData

\* max(chapters) of a non-empty list
MaxOf(s) == CHOOSE x \in SeqToSet(s) : \A y \in SeqToSet(s) : y <= x

\* a faulty get_last_downloaded_chapter: the first recorded number
FirstRecorded(novels_data, novel_title) ==
  LET chapters == RecordedChapters(novels_data, novel_title)
  IN IF chapters # <<>> THEN chapters[1] ELSE 0

\* NovelListManager.get_last_downloaded_chapter, on the loaded data
get_last_downloaded_chapter(novels_data, novel_title) ==
  LET chapters == RecordedChapters(novels_data, novel_title)
  IN IF chapters # <<>> THEN MaxOf(chapters) ELSE 0

\* --------------------------------------------------- process_novel pieces
\* end_chapter = novel.total_chapters or start_chapter, when end is None
ResolveEnd(start_chapter, end_chapter, total_chapters) ==
  IF end_chapter = NoneEnd
  THEN (IF total_chapters # NoneTotal THEN total_chapters ELSE start_chapter)
  ELSE end_chapter

\* the chapter requests a user can type to the bot: a number is one token
\* (its decimal digits), "-" and any other word are tokens of their own
ChapterRequests ==
  {<<"all">>, <<"ALL">>, <<"x">>}
  \cup {<<ToString(k)>> : k \in Chapters}
  \cup {<<ToString(a), "-", ToString(b)>> : a \in Chapters, b \in Chapters}
  \cup {<<ToString(a), "-">> : a \in Chapters}

\* text.lower(), token by token
Lower(text) == [i \in 1..Len(text) |-> IF text[i] = "ALL" THEN "all" ELSE text[i]]

\* the numbers a user can type: 0 as well as the chapter numbers
Typed == 0..MaxChapter

\* int(s) succeeds on the decimal digits of a number
IsInt(s) == Len(s) = 1 /\ \E k \in Typed : ToString(k) = s[1]
IntOf(s) == CHOOSE k \in Typed : ToString(k) = s[1]

\* DownloadHandlers.handle_chapters, the parse of the request:
\* ok = FALSE when int() raises ValueError (the handler replies and returns)
handle_chapters(message_text) ==
  LET text == Lower(message_text)
      invalid == [ok |-> FALSE, start_chapter |-> 0, end_chapter |-> 0]
      dash == FirstIndexFrom(text, "-", 1)
  IN IF text = <<"all">>
     THEN [ok |-> TRUE, start_chapter |-> 1, end_chapter |-> NoneEnd]
     ELSE IF dash # 0
     THEN LET start_str == SubSeq(text, 1, dash - 1)
              end_str == SubSeq(text, dash + 1, Len(text))
          IN IF IsInt(start_str) /\ IsInt(end_str)
             THEN [ok |-> TRUE, start_chapter |-> IntOf(start_str),
                   end_chapter |-> IntOf(end_str)]
             ELSE invalid
     ELSE IF IsInt(text)
     THEN [ok |-> TRUE, start_chapter |-> IntOf(text), end_chapter |-> IntOf(text)]
     ELSE invalid

\* range(start_chapter, end_chapter + 1)
RequestedRange(start_chapter, end_chapter) == start_chapter..end_chapter

RECURSIVE LoadLoop(_, _, _, _)
\* the loop over requested_chapters_range that loads existing chapters:
\* fs are the chapter files, bad the numbers whose read raises IOError
\* a faulty read of the load loop: no read is taken to have failed
ReadNeverRaises(i, bad) == FALSE

\* the read of chapter file i in the load loop raises IOError (caught at
\* manager.py 204): bad is the set of files the environment lets fail
ReadRaises(i, bad) == i \in bad

LoadLoop(i, end_chapter, fs, bad) ==
  IF i > end_chapter THEN <<>>
  ELSE (IF fs[i] # NoFile /\ ~ReadRaises(i, bad)
        THEN <<LoadedChapter(i, fs[i])>>
        ELSE <<>>) \o LoadLoop(i + 1, end_chapter, fs, bad)

\* a faulty chapters_to_download: the loaded chapters are not left out
WholeRange(range, existing_chapter_numbers) == range

\* chapters_to_download = [i for i in range if i not in existing_chapter_numbers]
ChaptersToDownload(range, existing_chapter_numbers) ==
  range \ existing_chapter_numbers

\* a faulty create_epub: novel.chapters in the order of collection
CollectionOrder(chapters) == chapters

\* sorted(novel.chapters, key=lambda c: c.number) of create_epub
RECURSIVE SortedByNumber(_)
SortedByNumber(chapters) ==
  IF chapters = <<>> THEN <<>>
  ELSE LET k == CHOOSE i \in 1..Len(chapters) :
                  /\ \A j \in 1..Len(chapters) :
                       chapters[i].number <= chapters[j].number
                  /\ \A j \in 1..(i - 1) :
                       chapters[j].number # chapters[i].number
           rest == [j \in 1..(Len(chapters) - 1) |->
                      IF j < k THEN chapters[j] ELSE chapters[j + 1]]
       IN <<chapters[k]>> \o SortedByNumber(rest)

\* a faulty save: the Chapter is returned although the write failed
ReturnUnsaved(chapter_num, title, content, writeOk) ==
  [kind |-> "chapter",
   chapter |-> [number |-> chapter_num, title |-> title, content |-> content],
   write |-> IF writeOk THEN ContentToSave(title, content) ELSE NoFile,
   fetch |-> "data"]

\* download_chapter, manager.py 56-69: the chapter file is written and the
\* Chapter returned; an IOError of the write is caught and None returned
SaveFetched(chapter_num, title, content, writeOk) ==
  IF writeOk
  THEN [kind |-> "chapter",
        chapter |-> [number |-> chapter_num, title |-> title, content |-> content],
        write |-> ContentToSave(title, content),
        fetch |-> "data"]
  ELSE [kind |-> "none",
        chapter |-> [number |-> chapter_num, title |-> <<>>, content |-> <<>>],
        write |-> NoFile, fetch |-> "data"]

\* NovelManager.download_chapter as the worker runs it: file is the chapter
\* file at the time, readOk / page / writeOk are the environment's answers.
\* kind is "chapter" (a Chapter is returned), "none" (None is returned) or
\* "raised" (an exception leaves the function); write is the file content
\* written (NoFile: nothing written); fetch tells whether the network was
\* asked.
download_chapter(chapter_num, file, readOk, page, writeOk) ==
  IF file # NoFile /\ readOk
  THEN [kind |-> "chapter", chapter |-> LocalChapter(chapter_num, file),
        write |-> NoFile, fetch |-> "no"]
  ELSE LET chapter_data == get_chapter_content(page)
           none == [number |-> chapter_num, title |-> <<>>, content |-> <<>>]
       IN IF Truthy(chapter_data)
          THEN IF CanUnpack2(chapter_data)
               THEN SaveFetched(chapter_num, <<chapter_data[1]>>,
                                <<chapter_data[2]>>, writeOk)
               ELSE [kind |-> "raised", chapter |-> none,
                     write |-> NoFile, fetch |-> "data"]
          ELSE [kind |-> "none", chapter |-> none,
                write |-> NoFile, fetch |-> "failed"]


\* ------------------------------------------------------------------ state
VARIABLES
  files,      \* chapters/chapter_<n>.html of the novel directory: content or NoFile
  meta,       \* metadata.json of the novel directory
  coverFile,  \* TRUE when a cover image file is in the novel directory
  ledger,     \* novel_list.json: [exists, entries]
  op,         \* the process_novel operations: locals and position of each
  last,       \* the process_novel call that returned last: its range and
              \* whether it ended with every chapter of it in novel.chapters
  arg,        \* the arguments of a function that is called by itself
  ret,        \* what that function returned
  user_data,  \* context.user_data of each user of the bot
  libraries,  \* user_libraries.json: [exists, entries]
  downloads   \* the background downloads handle_chapters has started

botVars == <<user_data, libraries, downloads>>
vars == <<files, meta, coverFile, ledger, op, last, arg, ret, botVars>>

\* a chapter file as download_chapter writes it, and one without a title
\* marker (the form novel_scraper.py download_and_save_chapter writes)
StoredTitled == ContentToSave(<<"t">>, JoinParagraphs(<< <<"x">> >>))
StoredPlain == JoinParagraphs(<< <<"y">> >>)
\* the content a chapter file found in the directory at the start can have
StoredFor(n) == IF n % 2 = 1 THEN StoredTitled ELSE StoredPlain

NoMeta == [exists |-> FALSE, total |-> NoneTotal, cover |-> FALSE]
NoLedger == [exists |-> FALSE, entries |-> EmptyData]

\* An operation slot in which process_novel is not running.  Beside the
\* locals of process_novel a slot keeps what the run observed:
\*   live        the total_chapters of the live novel page
\*   readErrs    the chapter files whose read raised IOError in the load loop
\*   fetchFailed the chapters whose page request gave nothing
\*   fetchData   the chapters whose page request gave content
\*   epubFile    the EPUB file of the run is in the novel directory
\*   afterDelivery  the run was called right after a run of the same range
\*               whose EPUB the bot has sent
\*   afterFull   the run was called right after a run of the same range that
\*               ended with every chapter of the range in novel.chapters
\*   call        the method of NovelManager that was called
\*   existing    existing_chapter_numbers of the load loop
\*   info        get_novel_info returned a Novel (FALSE: it returned None)
\*   ledgerRead  the read of novel_list.json by this run: "no" (not yet,
\*               or no file), "ok" or "failed"
\*   ledgerWritten  the write of novel_list.json by this run succeeded
\*   reason      why the call ended without an EPUB: "metadata_unavailable",
\*               "archive_empty", "epub_write" (return None) or the place of
\*               the exception that left it: "metadata_write", "task",
\*               "cover_write", "no_method"
IdleOp ==
  [pc |-> "idle", call |-> "process_novel", info |-> FALSE,
   ledgerRead |-> "no", ledgerWritten |-> FALSE, reason |-> "", start |-> 1, endArg |-> NoneEnd, end |-> 0,
   live |-> NoneTotal, total |-> NoneTotal, cover |-> FALSE,
   chapters |-> <<>>, existing |-> {}, tasks |-> [n \in Chapters |-> "na"],
   readErrs |-> {}, fetchFailed |-> {}, fetchData |-> {},
   afterFull |-> FALSE, nd |-> EmptyData, epub |-> <<>>,
   epubFile |-> FALSE, afterDelivery |-> FALSE]

\* "delivered": _run_manager_and_send has sent the EPUB and cleaned up
Terminal == {"done", "failed", "raised", "delivered"}

NoLast == [start |-> 1, end |-> 0, full |-> FALSE, delivered |-> FALSE]

NoChapter == [number |-> 0, title |-> <<>>, content |-> <<>>]
NoArg == [title |-> <<>>, body |-> <<>>, n |-> 1, novel_title |-> NovelTitle]
\* user, raised and text are used by the handlers of the bot: the user
\* whose update was handled, whether an exception left the handler, and
\* the text of the message
\* index and url are the arguments of a call of the LibraryManager
NoRet == [fn |-> "none", chapter |-> NoChapter, value |-> 0, readOk |-> TRUE,
          user |-> 0, raised |-> FALSE, text |-> <<>>,
          index |-> 0, url |-> "none"]

\* ------------------------------------------------------- the bot's data
\* BotStateManager.STATE_*
STATE_IDLE == 0
STATE_AWAITING_URL == 1
STATE_AWAITING_CHAPTERS == 2
STATE_AWAITING_LIBRARY_CHAPTERS == 3
States ==
  {STATE_IDLE, STATE_AWAITING_URL, STATE_AWAITING_CHAPTERS,
   STATE_AWAITING_LIBRARY_CHAPTERS}

\* the users of the bot and the novel pages they can name
Users == {1, 2}
Urls == {"http://a", "http://b"}
\* the ranked list of the site, best first
RankedNovels == <<"http://a", "http://b", "http://c">>

\* a key that is not in the user_data dict: of 'state' and of the integer
\* keys, of the string keys; a missing 'browse_list' is written <<>> (a
\* stored browse list is never empty, browse_handlers.py 31-36)
MissingState == -1
MissingInt == -2
MissingStr == "missing"

\* context.user_data of a user who has not used the bot: {}
EmptyUserData ==
  [state |-> MissingState, url |-> MissingStr,
   start_chapter |-> MissingInt, end_chapter |-> MissingInt,
   current_novel_info |-> MissingStr,
   browse_list |-> <<>>, browse_index |-> MissingInt]

\* `if context.user_data:` -- a dict is true when it has a key
HasKeys(data) == data # EmptyUserData

\* a faulty set_state: a state that is stored is never replaced
SetOnce(data, state) ==
  IF HasKeys(data) /\ data.state = MissingState
  THEN [data EXCEPT !.state = state] ELSE data

\* BotStateManager.get_state and set_state on the user_data of one user
get_state(data) ==
  IF HasKeys(data)
  THEN (IF data.state # MissingState THEN data.state ELSE STATE_IDLE)
  ELSE STATE_IDLE
set_state(data, state) ==
  IF HasKeys(data) THEN [data EXCEPT !.state = state] ELSE data

\* user_libraries.json: missing, or a list of novel urls for each user
\* (a user without a key has the empty list)
NoLibraries == [exists |-> FALSE, entries |-> [u \in Users |-> <<>>]]

\* nobody has used the bot
BotIdle ==
  /\ user_data = [u \in Users |-> EmptyUserData]
  /\ libraries = NoLibraries
  /\ downloads = <<>>

\* the answers of the site to the request for the novel page, as
\* get_novel_info parses them (ok = FALSE: the request or the parse failed;
\* total = NoneTotal: the page shows no chapter count)
NovelPages ==
  {[ok |-> FALSE, total |-> NoneTotal, cover |-> FALSE]}
  \cup [ok : {TRUE}, total : {NoneTotal} \cup Chapters, cover : BOOLEAN]

\* the answers of a site whose novel page names a cover image
CoverPages == {page \in NovelPages : page.ok => page.cover}

Init ==
  /\ files \in [Chapters -> {NoFile, StoredTitled, StoredPlain}]
  /\ \A n \in Chapters : files[n] \in {NoFile, StoredFor(n)}
  /\ meta = NoMeta
  /\ coverFile = FALSE
  /\ ledger = NoLedger
  /\ op = [o \in OpIds |-> IdleOp]
  /\ last = NoLast
  /\ arg = NoArg
  /\ ret = NoRet
  /\ BotIdle

\* the chapters dispatched to the pool by an operation
Dispatched(o) == {n \in DOMAIN op[o].tasks : op[o].tasks[n] # "na"}
Running(o) == {n \in DOMAIN op[o].tasks : op[o].tasks[n] = "running"}
Unfinished(o) ==
  {n \in DOMAIN op[o].tasks : op[o].tasks[n] \in {"queued", "running"}}
\* the chapter numbers in novel.chapters
Result(o) == SeqToSet(Numbers(op[o].chapters))

\* an operation that ended with every chapter of its range in novel.chapters
Full(r) ==
  /\ r.pc \in Terminal
  /\ r.start <= r.end
  /\ SeqToSet(Numbers(r.chapters)) = RequestedRange(r.start, r.end)

\* a faulty test of the result of get_novel_info: None is taken for a Novel
NeverUnavailable(page) == FALSE

\* `if not temp_novel:` of process_novel: get_novel_info returned None
MetadataUnavailable(page) == ~page.ok

\* a faulty order of steps: the ledger update is passed over
SkipLedger(chapters_to_download) == "cover"

\* `if chapters_to_download:` of process_novel: the batch, or straight on to
\* update_novel_list_json
AfterLoad(chapters_to_download) ==
  IF chapters_to_download # {} THEN "batch" ELSE "ledger"

\* ---------------------------------------------------------------- actions
\* process_novel from its call to the submission of the download tasks
\* (manager.py 121-215): live metadata, metadata.json, range, load loop.
\* The environment gives the novel page, whether metadata.json can be read
\* and written, and the chapter files (bad) whose read raises IOError.
ProcessNovelBegin(o, start_chapter, end_chapter, pages) ==
  /\ op[o].pc = "idle"
  /\ \E page \in pages :
       LET begun == [IdleOp EXCEPT !.info = page.ok,
                                   !.start = start_chapter,
                                   !.endArg = end_chapter, !.end = end_chapter]
       IN IF MetadataUnavailable(page)
          THEN \* get_novel_info returned None: return None
               /\ op' = [op EXCEPT ![o] = [begun EXCEPT
                                              !.pc = "failed",
                                              !.reason = "metadata_unavailable"]]
               /\ UNCHANGED meta
          ELSE \E metaReadOk \in IF meta.exists THEN BOOLEAN ELSE {TRUE},
                  metaWriteOk \in BOOLEAN :
            LET temp_novel == [total |-> page.total, cover |-> page.cover]
                novel == IF meta.exists /\ metaReadOk
                         THEN [total |-> meta.total, cover |-> meta.cover]
                         ELSE temp_novel
                end == ResolveEnd(start_chapter, end_chapter, novel.total)
                range == RequestedRange(start_chapter, end)
            IN IF ~metaWriteOk
               THEN \* open(metadata_path, 'w') raises IOError, no handler
                    /\ op' = [op EXCEPT ![o] = [begun EXCEPT !.pc = "raised",
                                                              !.reason = "metadata_write",
                                                              !.live = page.total,
                                                              !.total = novel.total,
                                                              !.cover = novel.cover]]
                    /\ UNCHANGED meta
               ELSE \E bad \in SUBSET {i \in range : files[i] # NoFile} :
                 LET chapters == LoadLoop(start_chapter, end, files, bad)
                     existing_chapter_numbers == SeqToSet(Numbers(chapters))
                     chapters_to_download ==
                       ChaptersToDownload(range, existing_chapter_numbers)
                 IN /\ meta' = [exists |-> TRUE, total |-> novel.total,
                                cover |-> novel.cover]
                    /\ op' = [op EXCEPT ![o] =
                         [begun EXCEPT
                            !.pc = AfterLoad(chapters_to_download),
                            !.end = end,
                            !.live = page.total,
                            !.total = novel.total,
                            !.cover = novel.cover,
                            !.chapters = chapters,
                            !.existing = existing_chapter_numbers,
                            !.readErrs = bad,
                            !.afterFull = /\ last.full
                                          /\ last.start = start_chapter
                                          /\ last.end = end,
                            !.afterDelivery = /\ last.delivered
                                              /\ last.start = start_chapter
                                              /\ last.end = end,
                            !.tasks = [n \in DOMAIN files |->
                                         IF n \in chapters_to_download
                                         THEN "queued" ELSE "na"]]]
  /\ UNCHANGED <<files, coverFile, ledger, last, arg, ret, botVars>>

\* process_novel returns to its caller (or its exception reaches it): the
\* locals of the call are gone
ProcessNovelReturn(o) ==
  /\ op[o].pc \in Terminal
  /\ last' = [start |-> op[o].start, end |-> op[o].end, full |-> Full(op[o]),
              delivered |-> op[o].pc = "delivered"]
  /\ op' = [op EXCEPT ![o] = IdleOp]
  /\ UNCHANGED <<files, meta, coverFile, ledger, arg, ret, botVars>>

\* `manager.update_novel(args.url)` of __main__.py and of
\* update_novel_callback: NovelManager defines no update_novel, the
\* attribute lookup raises AttributeError before anything else happens
UpdateNovel(o) ==
  /\ op[o].pc = "idle"
  /\ op' = [op EXCEPT ![o] = [IdleOp EXCEPT !.pc = "raised",
                                            !.reason = "no_method",
                                            !.call = "update_novel"]]
  /\ UNCHANGED <<files, meta, coverFile, ledger, last, arg, ret, botVars>>

\* the bot: handle_chapters parses the request and _run_manager_and_send
\* calls process_novel with the parsed range
RunManager(o, message_text, pages) ==
  LET parsed == handle_chapters(message_text)
  IN /\ parsed.ok
     /\ ProcessNovelBegin(o, parsed.start_chapter, parsed.end_chapter, pages)

\* the command line: main() calls process_novel with --start_chapter
\* (default 1) and --end_chapter (default None)
Main(o, start_chapter, end_chapter, pages) ==
  ProcessNovelBegin(o, start_chapter, end_chapter, pages)

\* a faulty pool: a thread for every submitted task
UnboundedPool(running) == TRUE
\* a faulty pool: no worker thread takes a task
NoWorker(running) == FALSE

\* ThreadPoolExecutor(max_workers=10): a submitted task waits in the queue
\* while max_workers worker threads are busy
WorkerFree(running) == Cardinality(running) < max_workers

\* a worker thread of the pool takes a submitted task
TaskStart(o, n) ==
  /\ op[o].pc \in {"batch", "abort"}
  /\ op[o].tasks[n] = "queued"
  /\ WorkerFree(Running(o))
  /\ op' = [op EXCEPT ![o].tasks[n] = "running"]
  /\ UNCHANGED <<files, meta, coverFile, ledger, last, arg, ret, botVars>>

\* the worker runs download_chapter to its end and the as_completed loop
\* takes the result (manager.py 216-219); an exception of the task is
\* raised again by future.result(), which ends the loop.
\* The environment gives readOk when the file exists, the page when the
\* site is asked, writeOk when the file is written.
\* pages are the answers the site can give to a chapter request.
TaskFinishAt(o, n, pages) ==
  /\ op[o].pc \in {"batch", "abort"}
  /\ op[o].tasks[n] = "running"
  /\ \E readOk \in IF files[n] # NoFile THEN BOOLEAN ELSE {FALSE} :
     \E page \in IF files[n] # NoFile /\ readOk
                 THEN {CHOOSE p \in pages : TRUE} ELSE pages :
     \E writeOk \in IF CanUnpack2(get_chapter_content(page))
                    THEN BOOLEAN ELSE {TRUE} :
       LET r == download_chapter(n, files[n], readOk, page, writeOk)
           collecting == op[o].pc = "batch"
       IN /\ files' = IF r.write # NoFile
                      THEN [files EXCEPT ![n] = r.write] ELSE files
          /\ op' = [op EXCEPT
               ![o].tasks[n] = r.kind,
               ![o].fetchFailed = IF r.fetch = "failed" THEN @ \cup {n} ELSE @,
               ![o].fetchData = IF r.fetch = "data" THEN @ \cup {n} ELSE @,
               ![o].chapters = IF collecting /\ r.kind = "chapter"
                               THEN Append(@, r.chapter) ELSE @,
               ![o].pc = IF collecting /\ r.kind = "raised" THEN "abort" ELSE @]
  /\ UNCHANGED <<meta, coverFile, ledger, last, arg, ret, botVars>>

TaskFinish(o, n) == TaskFinishAt(o, n, ChapterPages)

\* a faulty pool exit: shutdown(wait=False), fire and forget
NoWait(unfinished) == TRUE

\* ThreadPoolExecutor.__exit__ is shutdown(wait=True): it returns when no
\* submitted task is queued or running
AllTasksEnded(unfinished) == unfinished = {}

\* the end of the `with ThreadPoolExecutor` block: shutdown(wait=True)
\* returns when every submitted task has ended; a pending exception then
\* leaves process_novel
BatchJoin(o) ==
  /\ op[o].pc \in {"batch", "abort"}
  /\ AllTasksEnded(Unfinished(o))
  /\ op' = [op EXCEPT ![o].pc = IF @ = "batch" THEN "ledger" ELSE "raised",
                      ![o].reason = IF op[o].pc = "batch" THEN @ ELSE "task"]
  /\ UNCHANGED <<files, meta, coverFile, ledger, last, arg, ret, botVars>>

\* a ledger guarded by a lock file: no read while another operation is
\* between its read and its write
FileLock(updating) == updating = {}

\* update_novel_list_json takes no lock: it reads the ledger whatever other
\* operations are between their read and their write of it
NoLock(updating) == TRUE

\* update_novel_list_json, manager.py 76-99: read the ledger, build the entry
UpdateLedgerRead(o) ==
  /\ op[o].pc = "ledger"
  /\ NoLock({p \in OpIds \ {o} : op[p].pc = "ledger_write"})
  /\ \E readOk \in IF ledger.exists THEN BOOLEAN ELSE {TRUE} :
       LET novels_data == LoadNovelsData(ledger, readOk)
           existing_chapters == RecordedChapters(novels_data, NovelTitle)
           newly_downloaded_chapters == Numbers(op[o].chapters)
           all_chapters == AllChapters(existing_chapters, newly_downloaded_chapters)
       IN op' = [op EXCEPT ![o].pc = "ledger_write",
                           ![o].ledgerRead = IF ~ledger.exists THEN "no"
                                             ELSE IF readOk THEN "ok"
                                             ELSE "failed",
                           ![o].nd = [novels_data EXCEPT ![NovelTitle] = all_chapters]]
  /\ UNCHANGED <<files, meta, coverFile, ledger, last, arg, ret, botVars>>

\* how `with open(novels_list_path, 'w') as f: json.dump(...)` can end:
\* "ok", "open_failed" (open raises IOError, the file is not touched) or
\* "write_failed" (the open has truncated the file and the write raises)
WriteOutcomes == {"ok", "open_failed", "write_failed"}

\* a ledger file truncated by open(..., 'w'): json.load of it raises
\* JSONDecodeError, every reader takes it for {}
TruncatedLedger == [exists |-> TRUE, entries |-> EmptyData]

\* the ledger file after the write of update_novel_list_json, 101-106
WriteLedger(file, data, outcome) ==
  IF outcome = "ok" THEN [exists |-> TRUE, entries |-> data]
  ELSE IF outcome = "open_failed" THEN file
  ELSE TruncatedLedger

\* update_novel_list_json, manager.py 101-106: write the ledger (an IOError
\* is caught and printed); then the emptiness test of process_novel
\* (224-226)
UpdateLedgerWrite(o) ==
  /\ op[o].pc = "ledger_write"
  /\ \E outcome \in WriteOutcomes :
       /\ ledger' = WriteLedger(ledger, op[o].nd, outcome)
       /\ op' = [op EXCEPT
            ![o].pc = IF op[o].chapters = <<>> THEN "failed" ELSE "cover",
            ![o].reason = IF op[o].chapters = <<>> THEN "archive_empty" ELSE @,
            ![o].ledgerWritten = (outcome = "ok"),
            ![o].nd = EmptyData]
  /\ UNCHANGED <<files, meta, coverFile, last, arg, ret, botVars>>

\* download_cover_image and create_epub (manager.py 228-234).
\* cover: "ok", "request_error" (RequestException, caught) or "io_error"
\* (the cover file cannot be written, not caught)
CoverAndEpub(o) ==
  /\ op[o].pc = "cover"
  /\ LET download == op[o].cover /\ ~coverFile
     IN \E cover \in IF download THEN {"ok", "request_error", "io_error"} ELSE {"ok"} :
        \E epubWriteOk \in IF download /\ cover = "io_error" THEN {TRUE} ELSE BOOLEAN :
          LET raised == download /\ cover = "io_error"
          IN /\ coverFile' = (coverFile \/ (download /\ cover = "ok"))
             /\ op' = [op EXCEPT
                  ![o].pc = IF raised THEN "raised"
                            ELSE IF epubWriteOk THEN "done" ELSE "failed",
                  ![o].reason = IF raised THEN "cover_write"
                                ELSE IF epubWriteOk THEN @ ELSE "epub_write",
                  ![o].epub = IF raised THEN <<>>
                              ELSE Numbers(SortedByNumber(op[o].chapters)),
                  ![o].epubFile = ~raised /\ epubWriteOk]
  /\ UNCHANGED <<files, meta, ledger, last, arg, ret, botVars>>

\* one user, one operation at a time, on a site whose novel page names a
\* cover image
Next ==
  \/ \E message_text \in ChapterRequests : RunManager(1, message_text, CoverPages)
  \/ \E start_chapter \in Chapters, end_chapter \in Chapters \cup {NoneEnd} :
       Main(1, start_chapter, end_chapter, CoverPages)
  \/ UpdateNovel(1)
  \/ ProcessNovelReturn(1)
  \/ \E n \in Chapters : TaskStart(1, n)
  \/ \E n \in Chapters : TaskFinish(1, n)
  \/ BatchJoin(1)
  \/ UpdateLedgerRead(1)
  \/ UpdateLedgerWrite(1)
  \/ CoverAndEpub(1)

Spec == Init /\ [][Next]_vars

\* ------------------------------------------------------- the worker pool
\* the answers of a site that is down: every chapter request fails
DownPages == {page \in ChapterPages : page.http = "error"}
\* the novel page of a novel with a cover image and no chapter count
PlainPages == {[ok |-> TRUE, total |-> NoneTotal, cover |-> TRUE]}

\* an empty novel directory of a novel of MaxPoolChapter chapters
PoolInit ==
  /\ files = [n \in PoolChapters |-> NoFile]
  /\ meta = NoMeta
  /\ coverFile = FALSE
  /\ ledger = NoLedger
  /\ op = [o \in OpIds |-> IdleOp]
  /\ last = NoLast
  /\ arg = NoArg
  /\ ret = NoRet
  /\ BotIdle

\* one process_novel(url, 1, end_chapter) on the empty directory while the
\* site answers no chapter request: the batch of end_chapter tasks
PoolNext ==
  \/ /\ last = NoLast
     /\ \E end_chapter \in PoolChapters : Main(1, 1, end_chapter, PlainPages)
  \/ \E n \in PoolChapters : TaskStart(1, n)
  \/ \E n \in PoolChapters : TaskFinishAt(1, n, DownPages)
  \/ BatchJoin(1)
  \/ UpdateLedgerRead(1)
  \/ UpdateLedgerWrite(1)
  \/ ProcessNovelReturn(1)

SpecPool == PoolInit /\ [][PoolNext]_vars

\* ------------------------------------------------------- one run, scheduled
\* one call of process_novel by main() and what follows it
LiveNext ==
  \/ /\ last = NoLast
     /\ \E start_chapter \in Chapters, end_chapter \in Chapters \cup {NoneEnd} :
          Main(1, start_chapter, end_chapter, CoverPages)
  \/ \E n \in Chapters : TaskStart(1, n)
  \/ \E n \in Chapters : TaskFinish(1, n)
  \/ BatchJoin(1)
  \/ UpdateLedgerRead(1)
  \/ UpdateLedgerWrite(1)
  \/ CoverAndEpub(1)
  \/ ProcessNovelReturn(1)

\* The thread of process_novel and the worker threads keep running: a
\* worker takes a queued task when it is free, download_chapter ends
\* (requests.get has timeout=10 and raises requests.exceptions.Timeout, a
\* RequestException, the "error" answer of ChapterPages; file operations
\* end), and each later step of process_novel is taken.
SpecLive ==
  /\ Init
  /\ [][LiveNext]_vars
  /\ \A n \in Chapters : WF_vars(TaskStart(1, n))
  /\ \A n \in Chapters : WF_vars(TaskFinish(1, n))
  /\ WF_vars(BatchJoin(1))
  /\ WF_vars(UpdateLedgerRead(1))
  /\ WF_vars(UpdateLedgerWrite(1))
  /\ WF_vars(CoverAndEpub(1))

\* ------------------------------------------ two operations on one novel
\* the operations that are running process_novel
InFlight == {o \in OpIds : op[o].pc \notin {"idle"} \cup Terminal}

\* a bot that refuses a request while an operation is in flight
OneAtATime(others) == others = {}

\* handle_chapters starts the operation of an accepted request with
\* asyncio.create_task, whatever other operations are in flight
CanStart(others) == TRUE

\* a chapter request to the bot, with a free task to serve it: the request
\* is parsed and, if valid, process_novel runs in a thread of its own
BotRequest(o, message_text, pages) ==
  /\ CanStart(InFlight \ {o})
  /\ RunManager(o, message_text, pages)

\* a novel directory in which every chapter file is stored
RaceInit ==
  /\ files = [n \in Chapters |-> StoredFor(n)]
  /\ meta = NoMeta
  /\ coverFile = FALSE
  /\ ledger = NoLedger
  /\ op = [o \in OpIds |-> IdleOp]
  /\ last = NoLast
  /\ arg = NoArg
  /\ ret = NoRet
  /\ BotIdle

\* two chapter requests of users for the same novel, each served in a
\* thread of its own, while the site answers no chapter request
RaceNext ==
  \E o \in OpIds :
    \/ \E message_text \in ChapterRequests : BotRequest(o, message_text, PlainPages)
    \/ \E n \in Chapters : TaskStart(o, n)
    \/ \E n \in Chapters : TaskFinishAt(o, n, DownPages)
    \/ BatchJoin(o)
    \/ UpdateLedgerRead(o)
    \/ UpdateLedgerWrite(o)
    \/ CoverAndEpub(o)

SpecRace == RaceInit /\ [][RaceNext]_vars

\* ------------------------------------------------ a request for chapter 0
\* the chapter requests that name 0
ZeroRequests ==
  {<<"0">>}
  \cup {<<"0", "-", ToString(b)>> : b \in Typed}
  \cup {<<ToString(a), "-", "0">> : a \in Chapters}

\* a novel directory as earlier runs for chapters 1.. have left it; the
\* site answers a request for any number
ZeroInit ==
  /\ files \in [Typed -> {NoFile, StoredTitled, StoredPlain}]
  /\ \A n \in Chapters : files[n] \in {NoFile, StoredFor(n)}
  /\ files[0] = NoFile
  /\ meta = NoMeta
  /\ coverFile = FALSE
  /\ ledger = NoLedger
  /\ op = [o \in OpIds |-> IdleOp]
  /\ last = NoLast
  /\ arg = NoArg
  /\ ret = NoRet
  /\ BotIdle

\* one chapter request to the bot, which may name 0, and what follows it
ZeroNext ==
  \/ /\ last = NoLast
     /\ \E message_text \in ChapterRequests \cup ZeroRequests :
          RunManager(1, message_text, PlainPages)
  \/ \E n \in Typed : TaskStart(1, n)
  \/ \E n \in Typed : TaskFinish(1, n)
  \/ BatchJoin(1)
  \/ UpdateLedgerRead(1)
  \/ UpdateLedgerWrite(1)
  \/ CoverAndEpub(1)
  \/ ProcessNovelReturn(1)

SpecZero == ZeroInit /\ [][ZeroNext]_vars

\* ------------------------------------------------- the chapter store alone
\* sequences over S of length 0..n
SeqsUpTo(S, n) == UNION {[1..k -> S] : k \in 0..n}

\* chapter titles and chapter bodies (the paragraphs of a chapter page)
TitleTexts == SeqsUpTo({"t", "u"}, MaxTitleLen)
Bodies == {JoinParagraphs(ps) : ps \in SeqsUpTo({<<"x">>, <<"y">>}, MaxParas)}

\* an empty novel directory and a chapter (title, body) to store as chapter n
StoreInit ==
  /\ files = [n \in Chapters |-> NoFile]
  /\ meta = NoMeta
  /\ coverFile = FALSE
  /\ ledger = NoLedger
  /\ op = [o \in OpIds |-> IdleOp]
  /\ last = NoLast
  /\ arg \in [title : TitleTexts, body : Bodies, n : Chapters,
               novel_title : {NovelTitle}]
  /\ ret = NoRet
  /\ BotIdle

\* download_chapter, manager.py 56-69, on a chapter_data that unpacks into
\* (title, content): the chapter file is written and the Chapter returned,
\* or the write fails and None is returned; the result, if any, is appended
\* to novel.chapters (manager.py 217-219)
StoreWrite ==
  /\ files[arg.n] = NoFile
  /\ op[1].tasks[arg.n] = "na"
  /\ \E writeOk \in BOOLEAN :
       LET r == SaveFetched(arg.n, arg.title, arg.body, writeOk)
       IN /\ files' = IF r.write # NoFile
                      THEN [files EXCEPT ![arg.n] = r.write] ELSE files
          /\ op' = [op EXCEPT
               ![1].tasks[arg.n] = r.kind,
               ![1].chapters = IF r.kind = "chapter"
                               THEN Append(@, r.chapter) ELSE @]
  /\ UNCHANGED <<meta, coverFile, ledger, last, arg, ret, botVars>>

\* the load loop of process_novel, manager.py 175-203, reads the file back
StoreLoad ==
  /\ files[arg.n] # NoFile
  /\ ret = NoRet
  /\ ret' = [NoRet EXCEPT !.fn = "process_novel",
                          !.chapter = LoadedChapter(arg.n, files[arg.n])]
  /\ UNCHANGED <<files, meta, coverFile, ledger, op, last, arg, botVars>>

\* download_chapter, manager.py 29-45, reads the file back
StoreLocal ==
  /\ files[arg.n] # NoFile
  /\ ret = NoRet
  /\ ret' = [NoRet EXCEPT !.fn = "download_chapter",
                          !.chapter = LocalChapter(arg.n, files[arg.n])]
  /\ UNCHANGED <<files, meta, coverFile, ledger, op, last, arg, botVars>>

StoreNext == StoreWrite \/ StoreLoad \/ StoreLocal

SpecStore == StoreInit /\ [][StoreNext]_vars

\* ------------------------------------------------------- the ledger alone
\* the chapter lists update_novel_list_json can have written: sorted, no
\* number twice
LedgerLists == {SortedSeq(S) : S \in SUBSET Chapters}
LedgerFiles ==
  {NoLedger} \cup
  {[exists |-> TRUE, entries |-> e] : e \in [Titles -> {NoEntry} \cup LedgerLists]}

\* a ledger file and a title to ask about
LedgerInit ==
  /\ files = [n \in Chapters |-> NoFile]
  /\ meta = NoMeta
  /\ coverFile = FALSE
  /\ ledger \in LedgerFiles
  /\ op = [o \in OpIds |-> IdleOp]
  /\ last = NoLast
  /\ arg \in [title : {<<>>}, body : {<<>>}, n : {1}, novel_title : Titles]
  /\ ret = NoRet
  /\ BotIdle

\* NovelListManager.get_last_downloaded_chapter(novel_title): loads the
\* ledger (readOk = FALSE: IOError or JSONDecodeError) and answers
GetLastDownloadedChapter ==
  /\ ret = NoRet
  /\ \E readOk \in IF ledger.exists THEN BOOLEAN ELSE {TRUE} :
       ret' = [NoRet EXCEPT
                 !.fn = "get_last_downloaded_chapter",
                 !.readOk = readOk,
                 !.value = get_last_downloaded_chapter(
                             LoadNovelsData(ledger, readOk), arg.novel_title)]
  /\ UNCHANGED <<files, meta, coverFile, ledger, op, last, arg, botVars>>

LedgerNext == GetLastDownloadedChapter

\* the other title that the ledger may hold
OtherTitle == "B"

\* a novel directory with every chapter file stored and a ledger file in
\* which earlier runs have recorded chapters of the other title
FrameInit ==
  /\ files = [n \in Chapters |-> StoredFor(n)]
  /\ meta = NoMeta
  /\ coverFile = FALSE
  /\ ledger \in {file \in LedgerFiles :
                   file.exists /\ file.entries[OtherTitle] # NoEntry}
  /\ op = [o \in OpIds |-> IdleOp]
  /\ last = NoLast
  /\ arg = NoArg
  /\ ret = NoRet
  /\ BotIdle

\* one run of process_novel for NovelTitle over that ledger
SpecFrame == FrameInit /\ [][LiveNext]_vars

SpecLedger == LedgerInit /\ [][LedgerNext]_vars

\* ------------------------------------------------------- the delivery
\* the novel directory as _run_manager_and_send finds it after
\* process_novel has returned the path of the EPUB
NovelDir(o) ==
  [files |-> files, meta |-> meta, cover |-> coverFile, epub |-> op[o].epubFile]

\* os.listdir(novel_dir): the chapters directory, which process_novel makes
\* before anything else (manager.py 151-152), and the files beside it
Listing(dir) ==
  {"chapters"}
  \cup (IF dir.meta.exists THEN {"metadata.json"} ELSE {})
  \cup (IF dir.cover THEN {"cover"} ELSE {})
  \cup (IF dir.epub THEN {"epub"} ELSE {})

\* a novel directory that has been removed with all it held
RemovedDir(dir) ==
  [files |-> [n \in DOMAIN dir.files |-> NoFile], meta |-> NoMeta,
   cover |-> FALSE, epub |-> FALSE]

\* a faulty cleanup: the novel directory is removed with the EPUB
DeleteNovelDir(dir, removeOk) == RemovedDir(dir)

\* the cleanup of _run_manager_and_send (download_handlers.py 106-111):
\* os.remove(epub_path), then os.rmdir(novel_dir) if the directory lists
\* nothing; an OSError of os.remove (removeOk = FALSE) is caught by the
\* `except Exception` of line 114
DeleteEpub(dir, removeOk) ==
  IF ~removeOk THEN dir
  ELSE LET without == [dir EXCEPT !.epub = FALSE]
       IN IF Listing(without) = {} THEN RemovedDir(dir) ELSE without

\* _run_manager_and_send after process_novel has returned epub_path and
\* the file exists: the EPUB is sent and the cleanup follows
Deliver(o) ==
  /\ op[o].pc = "done"
  /\ op[o].epubFile
  /\ \E removeOk \in BOOLEAN :
       LET after == DeleteEpub(NovelDir(o), removeOk)
       IN /\ files' = after.files
          /\ meta' = after.meta
          /\ coverFile' = after.cover
          /\ op' = [op EXCEPT ![o].pc = "delivered", ![o].epubFile = after.epub]
  /\ UNCHANGED <<ledger, last, arg, ret, botVars>>

\* _run_manager_and_send ends: after the delivery, or with no EPUB to send
RunManagerEnd(o) ==
  /\ op[o].pc # "done"
  /\ ProcessNovelReturn(o)

\* the chapter requests of one user for the novel, one after the other,
\* each served to its end by _run_manager_and_send
DeliverNext ==
  \/ \E message_text \in ChapterRequests : RunManager(1, message_text, CoverPages)
  \/ \E n \in Chapters : TaskStart(1, n)
  \/ \E n \in Chapters : TaskFinish(1, n)
  \/ BatchJoin(1)
  \/ UpdateLedgerRead(1)
  \/ UpdateLedgerWrite(1)
  \/ CoverAndEpub(1)
  \/ Deliver(1)
  \/ RunManagerEnd(1)

SpecDeliver == Init /\ [][DeliverNext]_vars

\* -------------------------------------------------- the conversation
\* The handlers of the bot, each as one step for the user who sent the
\* update. The calls of the Telegram API (reply_text, send_message, ...)
\* are taken to return; the file operations and the requests to the site
\* fail or succeed as the environment chooses.

\* the background downloads the model can hold
MaxDownloads == 2

\* the texts a user can send: a chapter request or a url, token by token
UrlTexts == {<<u>> : u \in Urls}
Texts == ChapterRequests \cup UrlTexts

\* a faulty handle_url: every text is taken for a url
AnyText(text) == Len(text) >= 1

\* url.startswith('http')
StartsWithHttp(text) == Len(text) >= 1 /\ text[1] \in Urls

\* what a handler leaves in ret: its name, the user, whether it raised
Handled(fn, u, raised) ==
  ret' = [NoRet EXCEPT !.fn = fn, !.user = u, !.raised = raised]

\* CommandHandlers.start_command
StartCommand(u) ==
  /\ user_data' = [user_data EXCEPT ![u] = set_state(@, STATE_IDLE)]
  /\ Handled("start_command", u, FALSE)
  /\ UNCHANGED <<files, meta, coverFile, ledger, op, last, arg,
                 libraries, downloads>>

\* CommandHandlers.help_command
HelpCommand(u) ==
  /\ user_data' = [user_data EXCEPT ![u] = set_state(@, STATE_IDLE)]
  /\ Handled("help_command", u, FALSE)
  /\ UNCHANGED <<files, meta, coverFile, ledger, op, last, arg,
                 libraries, downloads>>

\* CommandHandlers._cleanup_browse_data on the dict: the two pops
cleanup_browse_data(data) ==
  IF HasKeys(data)
  THEN [data EXCEPT !.browse_list = <<>>, !.browse_index = MissingInt]
  ELSE data

\* CommandHandlers.cancel_command; shutil.rmtree("ranking_covers") of
\* _cleanup_browse_data may raise OSError (rmtreeOk = FALSE), which
\* leaves the handler before set_state
CancelCommand(u) ==
  \E rmtreeOk \in BOOLEAN :
    LET cleaned == cleanup_browse_data(user_data[u])
    IN /\ user_data' = [user_data EXCEPT ![u] =
                          IF rmtreeOk THEN set_state(cleaned, STATE_IDLE)
                          ELSE cleaned]
       /\ Handled("cancel_command", u, ~rmtreeOk)
       /\ UNCHANGED <<files, meta, coverFile, ledger, op, last, arg,
                      libraries, downloads>>

\* CommandHandlers.getnovel_command
GetnovelCommand(u) ==
  /\ user_data' = [user_data EXCEPT ![u] = set_state(@, STATE_AWAITING_URL)]
  /\ Handled("getnovel_command", u, FALSE)
  /\ UNCHANGED <<files, meta, coverFile, ledger, op, last, arg,
                 libraries, downloads>>

\* DownloadHandlers.handle_url on the dict; fetched: get_novel_info
\* returned a Novel (the Novel is written as its url)
handle_url(data, text, fetched) ==
  IF ~HasKeys(data) THEN data
  ELSE IF ~StartsWithHttp(text) THEN data
  ELSE LET with_url == [data EXCEPT !.url = text[1]]
       IN IF ~fetched THEN with_url
          ELSE set_state([with_url EXCEPT !.current_novel_info = text[1]],
                         STATE_AWAITING_CHAPTERS)

\* DownloadHandlers._run_manager_and_send up to the call of process_novel,
\* on the dict handle_chapters leaves: called = FALSE is the reply "Missing
\* novel information" (url is no str or start_chapter no int)
run_manager_and_send(u, data) ==
  [user |-> u, url |-> data.url, start |-> data.start_chapter,
   end |-> data.end_chapter,
   called |-> data.url # MissingStr /\ data.start_chapter # MissingInt]

\* a faulty handle_chapters: the range is not stored
KeepRange(data, parsed) == data

\* the dict after DownloadHandlers.handle_chapters has accepted a request
StoreRange(data, parsed) ==
  [data EXCEPT !.start_chapter = parsed.start_chapter,
               !.end_chapter = parsed.end_chapter]

\* DownloadHandlers.handle_text: the text is routed by the state of the
\* user to handle_url or to handle_chapters, or passed over. fetched is
\* the outcome of get_novel_info, should handle_url ask for it; it is left
\* in ret.readOk
HandleText(u, text) ==
  LET data == user_data[u]
      state == get_state(data)
      parsed == handle_chapters(text)
  IN /\ Len(downloads) < MaxDownloads
     /\ \E fetched \in IF state = STATE_AWAITING_URL /\ StartsWithHttp(text)
                        THEN BOOLEAN ELSE {TRUE} :
          /\ ret' = [NoRet EXCEPT !.fn = "handle_text", !.user = u,
                                  !.text = text, !.readOk = fetched]
          /\ state = STATE_AWAITING_URL =>
               user_data' = [user_data EXCEPT ![u] = handle_url(data, text, fetched)]
     /\ IF state = STATE_AWAITING_URL
        THEN UNCHANGED downloads
        ELSE IF /\ state \in {STATE_AWAITING_CHAPTERS,
                              STATE_AWAITING_LIBRARY_CHAPTERS}
                /\ HasKeys(data)
                /\ parsed.ok
        THEN LET stored == StoreRange(data, parsed)
             IN /\ downloads' = Append(downloads, run_manager_and_send(u, stored))
                /\ user_data' = [user_data EXCEPT ![u] = set_state(stored, STATE_IDLE)]
        ELSE UNCHANGED <<user_data, downloads>>
     /\ UNCHANGED <<files, meta, coverFile, ledger, op, last, arg, libraries>>

\* the ranked lists get_ranked_list can return: a prefix of the ranking,
\* [] when the request fails
RankedLists == {SubSeq(RankedNovels, 1, k) : k \in 0..Len(RankedNovels)}

\* BrowseHandlers.browse_sort_callback
BrowseSort(u) ==
  /\ \E ranked_list \in RankedLists :
       user_data' = [user_data EXCEPT ![u] =
                       IF ranked_list = <<>> THEN @
                       ELSE [@ EXCEPT !.browse_list = ranked_list,
                                      !.browse_index = 0]]
  /\ Handled("browse_sort_callback", u, FALSE)
  /\ UNCHANGED <<files, meta, coverFile, ledger, op, last, arg,
                 libraries, downloads>>

\* a faulty navigation: the new index is stored without the test
AnyIndex(index, browse_list) == TRUE

\* `0 <= index < len(browse_list)` of browse_navigation_callback
IndexInList(index, browse_list) == 0 <= index /\ index < Len(browse_list)

\* the same test of read_novel_callback and of library_action_callback
InList(index, list) == 0 <= index /\ index < Len(list)

\* context.user_data.get('browse_index', 0)
BrowseIndex(data) ==
  IF data.browse_index = MissingInt THEN 0 ELSE data.browse_index

\* BrowseHandlers.browse_navigation_callback on the dict
browse_navigation(data, action) ==
  LET index == IF action = "browse_next" THEN BrowseIndex(data) + 1
               ELSE IF action = "browse_prev" THEN BrowseIndex(data) - 1
               ELSE BrowseIndex(data)
  IN IF ~HasKeys(data) THEN data
     ELSE IF IndexInList(index, data.browse_list)
     THEN [data EXCEPT !.browse_index = index]
     ELSE data

BrowseNavigation(u, action) ==
  /\ user_data' = [user_data EXCEPT ![u] = browse_navigation(@, action)]
  /\ Handled(action, u, FALSE)
  /\ UNCHANGED <<files, meta, coverFile, ledger, op, last, arg,
                 libraries, downloads>>

\* DownloadHandlers.read_novel_callback: the button "read:<index>" of a card
ReadNovelCallback(u, selected_index) ==
  LET data == user_data[u]
  IN /\ user_data' = [user_data EXCEPT ![u] =
                        IF HasKeys(data) /\ InList(selected_index, data.browse_list)
                        THEN set_state([data EXCEPT !.url = data.browse_list[selected_index + 1]],
                                       STATE_AWAITING_CHAPTERS)
                        ELSE data]
     /\ Handled("read_novel_callback", u, FALSE)
     /\ UNCHANGED <<files, meta, coverFile, ledger, op, last, arg,
                    libraries, downloads>>

\* LibraryManager.load_libraries: {} when the file is missing or its read
\* raises json.JSONDecodeError or IOError
load_libraries(file, readOk) ==
  IF file.exists /\ readOk THEN file.entries ELSE NoLibraries.entries

\* LibraryHandlers.library_action_callback, the button "lib_download:<index>"
LibraryDownload(u, index) ==
  /\ \E readOk \in IF libraries.exists THEN BOOLEAN ELSE {TRUE} :
       LET user_library == load_libraries(libraries, readOk)[u]
       IN user_data' = [user_data EXCEPT ![u] =
                          IF InList(index, user_library)
                          THEN set_state([@ EXCEPT !.url = user_library[index + 1]],
                                         STATE_AWAITING_LIBRARY_CHAPTERS)
                          ELSE @]
  /\ Handled("library_action_callback", u, FALSE)
  /\ UNCHANGED <<files, meta, coverFile, ledger, op, last, arg,
                 libraries, downloads>>

\* the user whose conversation is followed
BotUsers == {1}

\* the updates of one user, in any order
BotNext ==
  \E u \in BotUsers :
    \/ StartCommand(u)
    \/ HelpCommand(u)
    \/ CancelCommand(u)
    \/ GetnovelCommand(u)
    \/ \E text \in Texts : HandleText(u, text)
    \/ BrowseSort(u)
    \/ \E action \in {"browse_next", "browse_prev"} : BrowseNavigation(u, action)
    \/ \E selected_index \in 0..Len(RankedNovels) : ReadNovelCallback(u, selected_index)
    \/ \E index \in 0..1 : LibraryDownload(u, index)

\* the user has one novel in the library (the novel directory plays no
\* part: every chapter file is stored)
BotInit ==
  /\ files = [n \in Chapters |-> StoredFor(n)]
  /\ meta = NoMeta
  /\ coverFile = FALSE
  /\ ledger = NoLedger
  /\ op = [o \in OpIds |-> IdleOp]
  /\ last = NoLast
  /\ arg = NoArg
  /\ ret = NoRet
  /\ user_data = [u \in Users |-> EmptyUserData]
  /\ libraries = [exists |-> TRUE,
                  entries |-> [u \in Users |-> IF u \in BotUsers THEN <<"http://a">> ELSE <<>>]]
  /\ downloads = <<>>

SpecBot == BotInit /\ [][BotNext]_vars

\* ------------------------------------------------------- the libraries
\* the libraries add_to_library can have written for a user: no url twice
LibraryLists ==
  {list \in UNION {[1..k -> Urls] : k \in 0..Cardinality(Urls)} :
     \A i \in DOMAIN list, j \in DOMAIN list : list[i] = list[j] => i = j}
LibraryFiles ==
  {NoLibraries} \cup
  {[exists |-> TRUE, entries |-> e] : e \in [Users -> LibraryLists]}

\* user_libraries.json truncated by open(..., 'w'): json.load of it raises
\* JSONDecodeError and load_libraries answers {}
TruncatedLibraries == [exists |-> TRUE, entries |-> NoLibraries.entries]

\* LibraryManager.save_libraries: the file after the call; an IOError of
\* open or of json.dump is not caught
save_libraries(file, libs, outcome) ==
  IF outcome = "ok" THEN [exists |-> TRUE, entries |-> libs]
  ELSE IF outcome = "open_failed" THEN file
  ELSE TruncatedLibraries

\* list.pop(index), index counted from 0: the list without that item
Pop(list, index) ==
  SubSeq(list, 1, index) \o SubSeq(list, index + 2, Len(list))

\* LibraryManager.add_to_library(user_id, novel_info): True is left as 1
\* and False as 0 in ret.value
AddToLibrary(user_id, url) ==
  /\ \E readOk \in IF libraries.exists THEN BOOLEAN ELSE {TRUE},
        outcome \in WriteOutcomes :
       LET libs == load_libraries(libraries, readOk)
           called == [NoRet EXCEPT !.fn = "add_to_library", !.user = user_id,
                                   !.url = url, !.readOk = readOk]
       IN IF url \notin SeqToSet(libs[user_id])
          THEN /\ libraries' = save_libraries(
                                  libraries,
                                  [libs EXCEPT ![user_id] = Append(@, url)],
                                  outcome)
               /\ ret' = IF outcome = "ok" THEN [called EXCEPT !.value = 1]
                         ELSE [called EXCEPT !.raised = TRUE]
          ELSE /\ libraries' = libraries
               /\ ret' = [called EXCEPT !.value = 0]
  /\ UNCHANGED <<files, meta, coverFile, ledger, op, last, arg,
                 user_data, downloads>>

\* LibraryManager.remove_from_library(user_id, index): the removed novel
\* is left in ret.text, None as <<>>
RemoveFromLibrary(user_id, index) ==
  /\ \E readOk \in IF libraries.exists THEN BOOLEAN ELSE {TRUE},
        outcome \in WriteOutcomes :
       LET libs == load_libraries(libraries, readOk)
           user_library == libs[user_id]
           called == [NoRet EXCEPT !.fn = "remove_from_library",
                                   !.user = user_id, !.index = index,
                                   !.readOk = readOk]
       IN IF InList(index, user_library)
          THEN /\ libraries' = save_libraries(
                                  libraries,
                                  [libs EXCEPT ![user_id] = Pop(user_library, index)],
                                  outcome)
               /\ ret' = IF outcome = "ok"
                         THEN [called EXCEPT !.text = <<user_library[index + 1]>>]
                         ELSE [called EXCEPT !.raised = TRUE]
          ELSE /\ libraries' = libraries
               /\ ret' = called
  /\ UNCHANGED <<files, meta, coverFile, ledger, op, last, arg,
                 user_data, downloads>>

\* a libraries file that earlier sessions have left
LibraryInit ==
  /\ files = [n \in Chapters |-> StoredFor(n)]
  /\ meta = NoMeta
  /\ coverFile = FALSE
  /\ ledger = NoLedger
  /\ op = [o \in OpIds |-> IdleOp]
  /\ last = NoLast
  /\ arg = NoArg
  /\ ret = NoRet
  /\ user_data = [u \in Users |-> EmptyUserData]
  /\ libraries \in LibraryFiles
  /\ downloads = <<>>

\* the calls of the two users, in any order
LibraryNext ==
  \E user_id \in Users :
    \/ \E url \in Urls : AddToLibrary(user_id, url)
    \/ \E index \in 0..Cardinality(Urls) : RemoveFromLibrary(user_id, index)

SpecLibrary == LibraryInit /\ [][LibraryNext]_vars

\* ----------------------------------------------------------- properties
\* the requested range of an operation, once resolved
Range(o) == RequestedRange(op[o].start, op[o].end)
\* the chapter numbers the ledger file records for the novel
Recorded == SeqToSet(RecordedChapters(ledger.entries, NovelTitle))
\* get_last_downloaded_chapter of the novel when the ledger file is read
LastDownloaded == get_last_downloaded_chapter(ledger.entries, NovelTitle)
\* a sequence of numbers in strictly increasing order
StrictlyIncreasing(s) == \A i, j \in 1..Len(s) : i < j => s[i] < s[j]

\* C1 (amended): a process_novel run that follows a run of the same range
\* which ended with every chapter of the range in novel.chapters, and in
\* whose load loop no chapter-file read fails, dispatches no chapter fetch:
\* every chapter of the range is in novel.chapters from the local files.
C1_Idempotent ==
  \A o \in OpIds :
    (op[o].afterFull /\ op[o].readErrs = {}) =>
      /\ Dispatched(o) = {}
      /\ Result(o) = Range(o)

C1_Witness ==
  /\ op[1].pc = "ledger"
  /\ op[1].afterFull
  /\ op[1].readErrs = {}
  /\ Range(1) = Chapters
  /\ Dispatched(1) = {}

\* C1 as stated: a run that follows a run of the same range which ended
\* with every chapter of the range dispatches no chapter fetch.
C1_Stated ==
  \A o \in OpIds : op[o].afterFull => Dispatched(o) = {}

\* C2: when no chapter of the requested range R is cached and F is the set
\* of chapters whose fetch fails, novel.chapters at the end of the run holds
\* exactly the chapters R minus F.
C2_Completeness ==
  \A o \in OpIds :
    ( /\ op[o].pc \in Terminal
      /\ op[o].call = "process_novel"
      /\ op[o].start <= op[o].end
      /\ op[o].readErrs = {}
      /\ op[o].fetchFailed \cup op[o].fetchData = Range(o) ) =>
      Result(o) = Range(o) \ op[o].fetchFailed

\* C3: whatever the order in which the tasks of a batch complete, the
\* chapters create_epub puts into the book are the chapters of
\* novel.chapters in strictly increasing order of chapter number.
C3_EpubOrdered ==
  \A o \in OpIds :
    /\ StrictlyIncreasing(op[o].epub)
    /\ op[o].pc = "done" => SeqToSet(op[o].epub) = Result(o)

C3_Witness ==
  /\ op[1].pc = "done"
  /\ Numbers(op[1].chapters) = <<2, 1>>
  /\ op[1].epub = <<1, 2>>

\* C4: no step of any process_novel operation, a step in which the ledger
\* file cannot be read or written included, lowers
\* get_last_downloaded_chapter of the title or removes a number from the
\* recorded chapter set.
C4_MonotonicLedger ==
  [][ /\ LastDownloaded' >= LastDownloaded
      /\ Recorded \subseteq Recorded' ]_vars

\* C5: after a first run over [1,n] with no chapter cached that fails to
\* fetch exactly the set F, the ledger records exactly [1,n] minus F for
\* the title.
C5_Resume ==
  \A o \in OpIds :
    ( /\ last = NoLast
      /\ op[o].pc \in Terminal
      /\ op[o].call = "process_novel"
      /\ op[o].start = 1
      /\ op[o].start <= op[o].end
      /\ op[o].readErrs = {}
      /\ op[o].fetchFailed \cup op[o].fetchData = Range(o) ) =>
      Recorded = Range(o) \ op[o].fetchFailed

\* C6: a ledger update leaves for the title exactly the sorted list, no
\* number twice, of the numbers recorded before the update and the numbers
\* in novel.chapters of the run.
C6_LedgerUnion ==
  [][ \A o \in OpIds :
        (op[o].pc = "ledger_write" /\ ledger' # ledger) =>
          /\ StrictlyIncreasing(RecordedChapters(ledger'.entries, NovelTitle))
          /\ Recorded' = Recorded \cup Result(o) ]_vars

\* C7: a chapter (title, body) written to its chapter file by the download
\* path and read back by a local-load path gives a Chapter with that title
\* and that body as content.
C7_RoundTrip ==
  ret.fn \in {"process_novel", "download_chapter"} =>
    /\ ret.chapter.title = arg.title
    /\ ret.chapter.content = arg.body

\* C8: the request 'all' resolves to the range [1, total] with total the
\* chapter count of the live novel page of the call; a request k resolves
\* to [k,k]; a request 'a-b' resolves to [a,b].
C8_RangeResolution ==
  /\ handle_chapters(<<"all">>) =
       [ok |-> TRUE, start_chapter |-> 1, end_chapter |-> NoneEnd]
  /\ \A k \in Chapters :
       handle_chapters(<<ToString(k)>>) =
         [ok |-> TRUE, start_chapter |-> k, end_chapter |-> k]
  /\ \A a, b \in Chapters :
       handle_chapters(<<ToString(a), "-", ToString(b)>>) =
         [ok |-> TRUE, start_chapter |-> a, end_chapter |-> b]
  /\ \A o \in OpIds :
       op[o].pc \in {"batch", "ledger"} =>
         /\ op[o].endArg # NoneEnd => op[o].end = op[o].endArg
         /\ (op[o].endArg = NoneEnd /\ op[o].start = 1
                /\ op[o].live # NoneTotal) => op[o].end = op[o].live

\* C9: an update of a novel whose last downloaded chapter is at or above
\* the fresh total chapter count (any total of the site) dispatches no
\* chapter fetch and ends in Done.
C9_UpdateShortCircuit ==
  \A o \in OpIds :
    ( /\ op[o].call = "update_novel"
      /\ op[o].pc \in Terminal
      /\ \E total \in Chapters : LastDownloaded >= total ) =>
      /\ op[o].pc = "done"
      /\ Dispatched(o) = {}

\* the list the ledger file holds for the title asked about
AskedChapters == RecordedChapters(ledger.entries, arg.novel_title)

\* C10 (amended): get_last_downloaded_chapter(title) returns 0 when the
\* ledger file cannot be read or parsed, when the title has no entry and
\* when its chapter list is empty; otherwise it returns the largest
\* recorded chapter number of the title.
C10_LastDownloaded ==
  ret.fn = "get_last_downloaded_chapter" =>
    IF ~ret.readOk \/ AskedChapters = <<>>
    THEN ret.value = 0
    ELSE /\ ret.value \in SeqToSet(AskedChapters)
         /\ \A n \in SeqToSet(AskedChapters) : n <= ret.value

C10_Witness ==
  /\ ret.fn = "get_last_downloaded_chapter"
  /\ ret.readOk
  /\ Len(AskedChapters) = MaxChapter
  /\ ret.value = MaxChapter

\* C10 as stated: 0 when the title has no entry or an empty list, otherwise
\* the largest recorded chapter number.
C10_Stated ==
  ret.fn = "get_last_downloaded_chapter" =>
    IF AskedChapters = <<>>
    THEN ret.value = 0
    ELSE /\ ret.value \in SeqToSet(AskedChapters)
         /\ \A n \in SeqToSet(AskedChapters) : n <= ret.value

\* every task of the batch has ended and the batch is left
BatchOver(o) == op[o].pc \notin {"idle", "batch", "abort"} /\ Unfinished(o) = {}

\* C11: a chapter task that fails adds nothing to novel.chapters, does not
\* keep a sibling task of the batch from completing and contributing its
\* chapter, and no task failure leaves the batch as an exception of
\* process_novel.
C11_FailureIsolation ==
  \A o \in OpIds :
    /\ op[o].pc # "abort"
    /\ op[o].reason # "task"
    /\ \A n \in Dispatched(o) :
         /\ op[o].tasks[n] \in {"none", "raised"} => n \notin Result(o)
         /\ (BatchOver(o) /\ op[o].tasks[n] = "chapter") => n \in Result(o)

\* C12: after the metadata resolution of process_novel the novel's
\* total_chapters, the total written to metadata.json and the default end
\* of the range are those of the live novel page of this run.
C12_FreshTotalWins ==
  \A o \in OpIds :
    op[o].pc \in {"batch", "ledger"} =>
      /\ op[o].total = op[o].live
      /\ meta.total = op[o].live
      /\ op[o].endArg = NoneEnd =>
           op[o].end = ResolveEnd(op[o].start, NoneEnd, op[o].live)

\* C13: when get_novel_info gives no Novel, the call of process_novel ends
\* at once in failure (return None): it changes no chapter file, no
\* metadata.json, no cover file and no ledger, loads and dispatches no
\* chapter, and its only further step is the return.
C13_MetadataUnavailable ==
  [][ \A o \in OpIds :
        /\ ( /\ op[o].pc = "idle"
             /\ op'[o].pc # "idle"
             /\ op'[o].call = "process_novel"
             /\ ~op'[o].info ) =>
             /\ op'[o].pc = "failed"
             /\ op'[o].reason = "metadata_unavailable"
             /\ op'[o].chapters = <<>>
             /\ \A n \in Chapters : op'[o].tasks[n] = "na"
             /\ UNCHANGED <<files, meta, coverFile, ledger>>
        /\ ( /\ op[o].pc # "idle"
             /\ op[o].call = "process_novel"
             /\ ~op[o].info ) =>
             /\ op'[o] = op[o] \/ op'[o].pc = "idle"
             /\ UNCHANGED <<files, meta, coverFile, ledger>> ]_vars

C13_Witness ==
  /\ op[1].pc = "failed"
  /\ op[1].call = "process_novel"
  /\ ~op[1].info
  /\ op[1].reason = "metadata_unavailable"
  /\ \A n \in Chapters : files[n] # NoFile
  /\ ~meta.exists

\* the call of process_novel has ended after its Sync part (the batch and
\* the ledger update)
EndedAfterSync(o) ==
  /\ op[o].call = "process_novel"
  /\ \/ op[o].pc = "done"
     \/ op[o].pc \in Terminal /\
          op[o].reason \in {"archive_empty", "cover_write", "epub_write"}

\* C14: after Sync the outcome depends on the emptiness of novel.chapters
\* alone: empty, the operation fails and makes no EPUB; not empty, it makes
\* an EPUB of exactly those chapters and succeeds (as far as the EPUB file
\* itself can be written).
C14_OutcomeByEmptiness ==
  \A o \in OpIds :
    (EndedAfterSync(o) /\ op[o].reason # "epub_write") =>
      IF op[o].chapters = <<>>
      THEN op[o].pc = "failed" /\ op[o].epub = <<>>
      ELSE /\ op[o].pc = "done"
           /\ Len(op[o].epub) = Len(op[o].chapters)
           /\ SeqToSet(op[o].epub) = Result(o)

\* C15: a call of process_novel ends in failure only by
\* MetadataUnavailable or by an empty archive, and never in an exception:
\* every failure of a chapter fetch, chapter read, chapter write,
\* metadata.json write, ledger write or cover fetch is caught.
C15_Propagation ==
  \A o \in OpIds :
    (op[o].call = "process_novel" /\ op[o].pc \in {"failed", "raised"}) =>
      /\ op[o].pc = "failed"
      /\ op[o].reason \in {"metadata_unavailable", "archive_empty"}

\* C16: every chapter selection handle_chapters accepts, and every call of
\* process_novel, resolves to a closed interval [start, end] with
\* start <= end.
C16_RangeWellFormed ==
  \A o \in OpIds :
    op[o].pc \in {"batch", "ledger"} => op[o].start <= op[o].end

\* the chapter numbers whose chapter file is in the chapters directory
Stored == {n \in Chapters : files[n] # NoFile}

\* C17 (amended): after a process_novel operation whose ledger write
\* succeeded, the chapter set the ledger records for the title includes
\* every chapter number of novel.chapters of that operation.
C17_LedgerCoversResult ==
  \A o \in OpIds : op[o].ledgerWritten => Result(o) \subseteq Recorded

C17_Witness ==
  /\ op[1].pc = "done"
  /\ op[1].ledgerWritten
  /\ Result(1) = {1}
  /\ Recorded = {1}
  /\ Stored = Chapters

\* C17 as stated: after a process_novel operation whose ledger write
\* succeeded, the recorded chapter set includes every chapter number whose
\* chapter file is present.
C17_LedgerCoversStore ==
  \A o \in OpIds : op[o].ledgerWritten => Stored \subseteq Recorded

\* C18: a chapter obtained from the network is in novel.chapters only when
\* its title and body were written to its chapter file first: every
\* chapter number of novel.chapters has its chapter file, and a task whose
\* write failed contributes no chapter.
C18_WriteBeforeSuccess ==
  \A o \in OpIds : \A n \in Chapters :
    /\ n \in Result(o) => files[n] # NoFile
    /\ op[o].tasks[n] = "chapter" =>
         /\ files[n] = ContentToSave(arg.title, arg.body)
         /\ op[o].chapters =
              <<[number |-> n, title |-> arg.title, content |-> arg.body]>>
    /\ op[o].tasks[n] = "none" => (files[n] = NoFile /\ n \notin Result(o))

C18_Witness ==
  /\ op[1].tasks[arg.n] = "chapter"
  /\ arg.n \in Result(1)
  /\ arg.title # <<>>
  /\ files[arg.n] = ContentToSave(arg.title, arg.body)

\* the call of process_novel has resolved its range and run its load loop
Synced(o) ==
  /\ op[o].call = "process_novel"
  /\ op[o].pc # "idle"
  /\ op[o].info
  /\ op[o].reason # "metadata_write"
\* the chapter numbers for which the run asked the network
Fetched(o) == op[o].fetchFailed \cup op[o].fetchData

ReadableStored(o) ==
  {n \in Range(o) : files[n] # NoFile /\ n \notin op[o].readErrs}

\* C20: a chapter file that exists when a sync run starts is never
\* overwritten, in any sequence of runs, and a file of the requested range
\* that the load loop could read is not dispatched to download_chapter and
\* no network fetch is attempted for it.
C20_StoredImmutable ==
  [][ /\ \A n \in Chapters : files[n] # NoFile => files'[n] = files[n]
      /\ \A o \in OpIds :
           Synced(o)' =>
             /\ ReadableStored(o)' \subseteq op'[o].existing
             /\ ReadableStored(o)' \cap Dispatched(o)' = {}
             /\ ReadableStored(o)' \cap Fetched(o)' = {} ]_vars

C20_Witness ==
  /\ last # NoLast
  /\ op[1].pc = "done"
  /\ op[1].call = "process_novel"
  /\ Range(1) = Chapters
  /\ ReadableStored(1) = {1}
  /\ files[1] = StoredFor(1)
  /\ Dispatched(1) = {2}

\* the tasks of o that have ended
Finished(o) ==
  {n \in DOMAIN op[o].tasks : op[o].tasks[n] \in {"chapter", "none", "raised"}}

C22_LedgerWriteFailure ==
  [][ \A o \in OpIds :
        ( /\ op[o].pc = "ledger_write"
          /\ op'[o].pc # "ledger_write"
          /\ ~op'[o].ledgerWritten ) =>
            /\ files' = files
            /\ Recorded' = Recorded
            /\ LastDownloaded' = LastDownloaded
            /\ op[o].chapters # <<>> => op'[o].pc = "cover" ]_vars

\* C23: whatever download_cover_image does (no cover URL, a cover file
\* already there, a failed download), a run that reached it with a
\* non-empty novel.chapters goes on to create_epub and returns the EPUB
\* create_epub wrote.
C23_CoverBestEffort ==
  [][ \A o \in OpIds :
        (op[o].pc = "cover" /\ op'[o].pc # "cover") =>
          \/ op'[o].pc = "done" /\ op'[o].epub # <<>>
          \/ op'[o].pc = "failed" /\ op'[o].reason = "epub_write" ]_vars

\* C24: at every moment of a batch at most max_workers download tasks are
\* running, whatever the number of missing chapters, and the tasks
\* submitted are one for each missing chapter number of the range.
C24_BoundedConcurrency ==
  \A o \in OpIds :
    /\ Cardinality(Running(o)) <= max_workers
    /\ Synced(o) =>
         Dispatched(o) = ChaptersToDownload(Range(o), op[o].existing)

C24_Witness ==
  /\ op[1].pc = "batch"
  /\ Cardinality(Dispatched(1)) = MaxPoolChapter
  /\ Cardinality(Running(1)) = max_workers
  /\ \E n \in PoolChapters : op[1].tasks[n] = "queued"

\* C25: the ledger update, the emptiness test, the cover fetch and the EPUB
\* assembly of a process_novel run come after the end of every task
\* submitted for the batch of the run: no task is queued or running in any
\* state past the batch, and none when the ledger file or the cover file
\* is written.
C25_BatchBarrier ==
  [][ /\ \A o \in OpIds :
           op'[o].pc \notin {"idle", "batch", "abort"} =>
             /\ Unfinished(o)' = {}
             /\ Dispatched(o)' = Finished(o)'
      /\ (ledger' # ledger \/ coverFile' # coverFile) =>
           \A o \in OpIds : Unfinished(o) = {} /\ op[o].pc \notin {"batch", "abort"}
    ]_vars

C25_Witness ==
  /\ op[1].pc = "cover"
  /\ op[1].ledgerWritten
  /\ Dispatched(1) = Chapters
  /\ Finished(1) = Chapters
  /\ op[1].fetchFailed = {2}

\* The steps of process_novel in the order of its code, as positions of an
\* operation: "idle" -> (ResolveMetadata, EnsureDirectories, ComputeRange,
\* load loop) -> "batch" (Sync; "abort" when a task raised) -> "ledger",
\* "ledger_write" (UpdateLedger) -> "cover" (FetchCover, Assemble) ->
\* "done".  Failed is "failed" (process_novel returns None) or "raised" (an
\* exception leaves it).
StepOrder ==
  { <<"idle", "batch">>, <<"idle", "ledger">>,
    <<"batch", "abort">>, <<"batch", "ledger">>,
    <<"ledger", "ledger_write">>, <<"ledger_write", "cover">>,
    <<"cover", "done">> }
FailureSteps ==
  { <<"idle", "failed">>, <<"idle", "raised">>, <<"abort", "raised">>,
    <<"ledger_write", "failed">>, <<"cover", "failed">>, <<"cover", "raised">> }

\* C26: a process_novel run moves through its steps in the order
\* ResolveMetadata, EnsureDirectories, ComputeRange, Sync, UpdateLedger,
\* FetchCover, Assemble, Done, each at most once, or leaves that order for
\* Failed; the ledger file is written only in UpdateLedger, the cover file
\* and the EPUB only after it.
C26_StepOrder ==
  [][ \A o \in OpIds :
        /\ op'[o].pc # op[o].pc =>
             \/ <<op[o].pc, op'[o].pc>> \in StepOrder \cup FailureSteps
             \/ op[o].pc \in Terminal /\ op'[o].pc = "idle"
        /\ op'[o].epub # op[o].epub =>
             op[o].pc = "cover" \/ op'[o].pc = "idle"
        /\ ledger' # ledger =>
             \E p \in OpIds : op[p].pc = "ledger_write"
        /\ coverFile' # coverFile =>
             \E p \in OpIds : op[p].pc = "cover" ]_vars

C26_Witness ==
  /\ op[1].pc = "done"
  /\ op[1].ledgerWritten
  /\ coverFile
  /\ op[1].epub = <<1, 2>>
  /\ Dispatched(1) = {2}

\* C27: every process_novel run, whatever its range and whatever the site
\* answers to each chapter request (content, an error, no answer until the
\* timeout), comes to an end: it returns the EPUB (Done) or ends without
\* one (Failed); and every download task that runs comes to an end.
C27_Termination ==
  /\ \A o \in OpIds : (op[o].pc # "idle") ~> (op[o].pc \in Terminal)
  /\ \A o \in OpIds : \A n \in Chapters :
       (op[o].tasks[n] \in {"queued", "running"})
         ~> (op[o].tasks[n] \in {"chapter", "none", "raised"})

C27_Witness ==
  /\ op[1].pc = "done"
  /\ Range(1) = Chapters
  /\ op[1].fetchFailed = {2}
  /\ op[1].tasks[2] = "none"
  /\ Result(1) = {1}

\* C28 (amended): single ownership of a novel is not enforced by the bot.
\* A valid chapter request is accepted and its process_novel operation
\* started whenever a task can serve it, also while another operation on
\* the same novel is in flight.
C28_NoOwnerCheck ==
  /\ \A o \in OpIds : \A message_text \in ChapterRequests :
       (op[o].pc = "idle" /\ handle_chapters(message_text).ok) =>
         ENABLED BotRequest(o, message_text, PlainPages)
  /\ \A o \in InFlight : op[o].call = "process_novel"

C28_Witness ==
  /\ InFlight = {1, 2}
  /\ op[1].pc = "ledger_write"
  /\ op[2].pc = "ledger"
  /\ Range(1) = Range(2)

\* C28 as stated: at any time at most one process_novel operation is in
\* flight for the novel.
C28_SingleOwner == Cardinality(InFlight) <= 1

\* C29: two process_novel operations on the same novel are not coordinated
\* by a lock: an operation that has come to update_novel_list_json reads
\* the ledger also while the other is between its read and its write, and
\* the entry it then writes is built from what it read and its own
\* chapters.  C29_Witness is the lost update: both read before either
\* wrote, both wrote, and the ledger lacks the chapter the first writer
\* recorded.
C29_UnlockedLedger ==
  \A o \in OpIds :
    /\ op[o].pc = "ledger" => ENABLED UpdateLedgerRead(o)
    /\ op[o].pc = "ledger_write" =>
         /\ Result(o) \subseteq SeqToSet(RecordedChapters(op[o].nd, NovelTitle))
         /\ op[o].ledgerRead = "no" =>
              SeqToSet(RecordedChapters(op[o].nd, NovelTitle)) = Result(o)

C29_Witness ==
  /\ op[1].ledgerWritten /\ op[2].ledgerWritten
  /\ op[1].ledgerRead = "no" /\ op[2].ledgerRead = "no"
  /\ Result(1) = {1}
  /\ Result(2) = {2}
  /\ Recorded = {2}

\* C30: at every point of a process_novel run from the load loop on, and so
\* after the load loop and the batch, novel.chapters holds no chapter
\* number twice and every number in it is in the requested range.
C30_UniqueInRange ==
  \A o \in OpIds :
    Synced(o) =>
      /\ \A i, j \in 1..Len(op[o].chapters) :
           op[o].chapters[i].number = op[o].chapters[j].number => i = j
      /\ Result(o) \subseteq Range(o)

C30_Witness ==
  /\ op[1].pc = "ledger"
  /\ op[1].existing = {2}
  /\ op[1].tasks[1] = "chapter"
  /\ Numbers(op[1].chapters) = <<2, 1>>

\* C31 (as stated): every chapter that is fetched, stored or placed in
\* novel.chapters for a request accepted by handle_chapters has a number
\* greater than or equal to 1. handle_chapters accepts '0' and '0-1'
\* (int('0') is 0) and process_novel takes range(0, end + 1) as it is.
C31_PositiveNumbers ==
  /\ \A n \in Dispatched(1) \cup Fetched(1) \cup Result(1) : n >= 1
  /\ \A n \in DOMAIN files : files[n] # NoFile => n >= 1

\* C32 (as stated): a ledger update for title T changes only the entry
\* keyed by T: the entry of every other title recorded in the ledger file
\* is the same after the update as before, also when reading the ledger
\* file fails. The update takes a failed read for {} and rewrites the
\* whole file from it.
C32_LedgerFrame ==
  [][ledger'.entries[OtherTitle] = ledger.entries[OtherTitle]]_vars

\* C33 (as stated): after getnovel_command is handled for a user, get_state
\* for that user returns STATE_AWAITING_URL whatever the user_data held
\* before, an empty user_data included. set_state stores nothing in an
\* empty dict.
C33_GetnovelAwaitsUrl ==
  ret.fn = "getnovel_command" =>
    get_state(user_data[ret.user]) = STATE_AWAITING_URL

\* the commands that end a conversation
EndCommands == {"start_command", "help_command", "cancel_command"}

\* C34: after start_command, help_command or cancel_command is handled
\* (the handler returned), get_state for that user returns STATE_IDLE from
\* any prior conversation state, and a text message that follows starts
\* no download.
C34_CommandsGoIdle ==
  [][/\ (ret'.fn \in EndCommands /\ ~ret'.raised) =>
          get_state(user_data'[ret'.user]) = STATE_IDLE
     /\ (/\ ret.fn \in EndCommands /\ ~ret.raised
         /\ ret'.fn = "handle_text" /\ ret'.user = ret.user) =>
          downloads' = downloads]_vars

\* a conversation that had come to the chapter selection (url and novel
\* info stored, no range yet) has been cancelled, and a text can follow
C34_Witness ==
  /\ ret.fn = "cancel_command" /\ ~ret.raised /\ ret.user = 1
  /\ user_data[1].current_novel_info # MissingStr
  /\ user_data[1].state = STATE_IDLE
  /\ user_data[1].start_chapter = MissingInt
  /\ downloads = <<>>
  /\ ENABLED HandleText(1, <<"1">>)

\* the states in which a text is taken for a chapter selection
Selecting == {STATE_AWAITING_CHAPTERS, STATE_AWAITING_LIBRARY_CHAPTERS}

\* a text that is 'all' (in either case), an integer, or 'a-b' with
\* integer a and b
ChapterSelection(text) ==
  \/ Lower(text) = <<"all">>
  \/ IsInt(text)
  \/ /\ Len(text) = 3 /\ text[2] = "-"
     /\ IsInt(<<text[1]>>) /\ IsInt(<<text[3]>>)

\* C35: in STATE_AWAITING_CHAPTERS or STATE_AWAITING_LIBRARY_CHAPTERS a
\* text that is no chapter selection leaves the state and the stored
\* start/end unchanged and starts no download; an accepted text stores
\* start/end, starts exactly one background download and moves the state to
\* STATE_IDLE; a download calls process_novel only when a string url and an
\* integer start chapter are stored; a text received in STATE_IDLE starts
\* no download.
C35_ChapterSelection ==
  [][ret'.fn = "handle_text" =>
       LET u == ret'.user
           text == ret'.text
           before == user_data[u]
           after == user_data'[u]
           state == get_state(before)
       IN /\ (state \in Selecting /\ ~ChapterSelection(text)) =>
               /\ get_state(after) = state
               /\ after.start_chapter = before.start_chapter
               /\ after.end_chapter = before.end_chapter
               /\ downloads' = downloads
          /\ (state \in Selecting /\ ChapterSelection(text)) =>
               /\ after.start_chapter = handle_chapters(text).start_chapter
               /\ after.end_chapter = handle_chapters(text).end_chapter
               /\ after.start_chapter # MissingInt
               /\ Len(downloads') = Len(downloads) + 1
               /\ SubSeq(downloads', 1, Len(downloads)) = downloads
               /\ get_state(after) = STATE_IDLE
               /\ LET download == downloads'[Len(downloads')]
                  IN /\ download.user = u
                     /\ download.called =>
                          /\ download.url = after.url /\ download.url # MissingStr
                          /\ download.start = after.start_chapter
                          /\ download.end = after.end_chapter
          /\ state = STATE_IDLE => downloads' = downloads]_vars

\* the request '1-2' for the novel of the library has been accepted after
\* an earlier download was started, and its download calls process_novel
C35_Witness ==
  /\ ret.fn = "handle_text" /\ ret.text = <<"1", "-", "2">>
  /\ Len(downloads) = 2
  /\ downloads[2] = [user |-> 1, url |-> "http://a", start |-> 1, end |-> 2,
                     called |-> TRUE]
  /\ user_data[1].state = STATE_IDLE
  /\ user_data[1].start_chapter = 1 /\ user_data[1].end_chapter = 2

C37_BrowseIndexInBounds ==
  [][/\ \A u \in Users :
          user_data'[u].browse_list # <<>> =>
            /\ 0 <= user_data'[u].browse_index
            /\ user_data'[u].browse_index < Len(user_data'[u].browse_list)
     /\ \A u \in Users :
          LET before == user_data[u]
          IN (/\ ret'.user = u /\ before.browse_list # <<>>
              /\ \/ /\ ret'.fn = "browse_next"
                    /\ before.browse_index = Len(before.browse_list) - 1
                 \/ /\ ret'.fn = "browse_prev"
                    /\ before.browse_index = 0) =>
               user_data'[u].browse_index = before.browse_index]_vars

\* browse_next has been pressed on the only card of a list of one novel
C37_Witness ==
  /\ ret.fn = "browse_next" /\ ret.user = 1
  /\ user_data[1].browse_list = <<"http://a">>
  /\ user_data[1].browse_index = 0

\* the urls of the library of a user in the libraries file
LibraryOf(u) == libraries.entries[u]

C39_LibraryRemoval ==
  [][ret'.fn = "remove_from_library" =>
       LET u == ret'.user
           i == ret'.index
       IN /\ \A v \in Users \ {u} : libraries'.entries[v] = LibraryOf(v)
          /\ IF 0 <= i /\ i < Len(LibraryOf(u))
             THEN libraries'.entries[u] = Pop(LibraryOf(u), i)
             ELSE ret'.text = <<>> /\ libraries' = libraries]_vars

\* the step in which the bot sends the EPUB of a run and cleans up
DeliveryStep == op[1].pc = "done" /\ op'[1].pc = "delivered"

\* the delivery changes no chapter file, metadata.json, cover or ledger
DeliveryFrame ==
  DeliveryStep =>
    /\ files' = files /\ meta' = meta /\ coverFile' = coverFile
    /\ ledger' = ledger

\* C40 (amended): after the bot has sent a generated EPUB only the EPUB
\* file is deleted; the chapter files, metadata.json and the ledger entry
\* are unchanged, so a later request for the same range, when the delivered
\* run had every chapter of the range and no chapter-file read fails,
\* dispatches no chapter fetch.
C40_DeliveryKeepsCache ==
  [][/\ DeliveryFrame
     /\ ((op[1].afterDelivery /\ op[1].afterFull /\ op[1].readErrs = {}) =>
           (Dispatched(1) = {} /\ Fetched(1) = {} /\ Result(1) = Range(1)))']_vars

\* the request '1-2' is served a second time, from the chapter files alone,
\* after its EPUB was sent and deleted
C40_Witness ==
  /\ op[1].pc = "delivered" /\ ~op[1].epubFile
  /\ op[1].afterDelivery /\ op[1].afterFull /\ op[1].readErrs = {}
  /\ Range(1) = Chapters
  /\ Fetched(1) = {}
  /\ \A n \in Chapters : files[n] # NoFile

\* C40 as stated: ... so a later request for the same range needs no
\* chapter fetch.
C40_Stated ==
  [][/\ DeliveryFrame
     /\ (op[1].afterDelivery => Fetched(1) = {})']_vars

====
